---- MODULE Spec2Model ----
(***************************************************************************)
(* A model of the query optimizer of risinglight:                          *)
(*   - Optimizer::optimize (src/planner/mod.rs), the two-stage             *)
(*     saturate-and-extract loop;                                          *)
(*   - CostFn (src/planner/cost.rs), the cost function of the extractor.   *)
(* Expressions handled by optimize are abstract identifiers; the egg       *)
(* runner and extractor are a choice of (cost, expression) per round.      *)
(***************************************************************************)
EXTENDS Integers, Sequences, FiniteSets, TLC

(***************************************************************************)
(* Bounds of the model.                                                    *)
(***************************************************************************)
\* finite root costs an extraction may report are 0..MaxCost
MaxCost == 10
\* expressions are the identifiers 0..MaxExpr
MaxExpr == 1
\* finite root costs of the deterministic runner of DetSpec are 0..MaxDetCost
MaxDetCost == 2

\* a table has 0..MaxRows estimated rows
MaxRows == 2
\* the catalog has the columns 1..MaxCols; a scan reads the first 0..MaxCols of them
MaxCols == 2
\* plan nodes added on top of the base expressions in CostSpec
MaxPlans == 2
\* plan nodes of a pipeline of PipeSpec: the scan and MaxPipe - 1 operators above it
MaxPipe == 3
\* nodes of the expression handed to Optimizer::costs in ExprSpec
MaxNodes == 4

(***************************************************************************)
(* Program constants.                                                      *)
(***************************************************************************)
\* for _ in 0..10
Stage1Rounds == 10
\* .with_iter_limit(60)
Stage1IterLimit == 60
\* f32::MAX: above every finite cost of the model
F32_MAX == MaxCost + 1
\* f32 +infinity
F32_INF == MaxCost + 2

Exprs == 0..MaxExpr
CostValues == 0..F32_INF
DetCostValues == (0..MaxDetCost) \cup {F32_MAX}
Configs == [enable_range_filter_scan : BOOLEAN, table_is_sorted_by_primary_key : BOOLEAN]

VARIABLES
    config,        \* Optimizer.config
    pc,            \* position of the optimize call
    input,         \* the caller's expression (&RecExpr)
    expr,          \* local `expr`
    round,         \* loop variable of `for _ in 0..10`
    best_cost,     \* local `best_cost`
    cost,          \* local `cost` of the current round
    runner,        \* the egg::Runner of the current round / stage
    output,        \* the value optimize returned
    s1_runs,       \* history: Stage 1 runners built in this call
    s2_runs,       \* history: Stage 2 runners built in this call
    extracted,     \* history: the latest extraction of this call
    improved,      \* history: the latest extraction that made the loop continue
    decreasing,    \* history: every update of best_cost so far has lowered it
    plateau,       \* history: a round with cost >= best_cost has happened
    memo,          \* DetSpec: what the runner and extractor give for each expression
    calls,         \* DetSpec: number of optimize calls made
    log,           \* DetSpec: extractions of the current call
    first,         \* DetSpec: log and output of the first call
    catalog,       \* the catalog: for each column, whether it is required
    egraph,        \* the e-graph the cost function reads
    costs,         \* the cost of each class of egraph
    rexpr,         \* ExprSpec: the RecExpr handed to Optimizer::costs
    cost_result,   \* ExprSpec: what Optimizer::costs(rexpr) gave
    schema,        \* BindSpec: the names of the tables of the schema
    graph,         \* BindSpec: the CreateTable nodes of the binder's e-graph
    stmt,          \* BindSpec: the CREATE TABLE statement bound last
    result,        \* BindSpec: what bind_create_table gave for stmt
    col,           \* ColSpec: a ColumnCatalog
    col_op         \* ColSpec: the last call on col

optVars == <<config, pc, input, expr, round, best_cost, cost, runner, output>>
histVars == <<s1_runs, s2_runs, extracted, improved, decreasing, plateau>>
detVars == <<memo, calls, log, first>>
costVars == <<catalog, egraph, costs>>
exprVars == <<rexpr, cost_result>>
bindVars == <<schema, graph, stmt, result>>
colVars == <<col, col_op>>
otherVars == <<exprVars, bindVars, colVars>>
vars == <<optVars, histVars, detVars, costVars, otherVars>>

None == <<>>
Some(x) == <<x>>

\* the schemas of the catalog, each with the tables it already holds
ExistingTables == [postgres |-> {"t"}]

\* no expression costed, no statement bound, no column catalog built
NoOther ==
    /\ rexpr = <<>> /\ cost_result = None
    /\ schema = ExistingTables /\ graph = {} /\ stmt = None /\ result = None
    /\ col = None /\ col_op = None

(***************************************************************************)
(* f32 values.  A finite value is kept in hundredths (0.01 is Fin(1),      *)
(* 1.0 is Fin(100)); NaN and the infinities are values of their own.       *)
(* Products of the cost function always have a whole number (a row or      *)
(* column count, a factor) on one side, so hundredths stay exact.          *)
(***************************************************************************)
Fin(v) == [k |-> "fin", v |-> v]
NaN == [k |-> "nan", v |-> 0]
PosInf == [k |-> "inf", v |-> 0]
NegInf == [k |-> "ninf", v |-> 0]

Sign(a) ==
    CASE a.k = "inf" -> 1
      [] a.k = "ninf" -> -1
      [] a.k = "fin" -> (IF a.v > 0 THEN 1 ELSE IF a.v < 0 THEN -1 ELSE 0)
      [] OTHER -> 0

\* f32 addition
FAdd(a, b) ==
    CASE a.k = "nan" \/ b.k = "nan" -> NaN
      [] a.k = "fin" /\ b.k = "fin" -> Fin(a.v + b.v)
      [] a.k = "fin" -> b
      [] b.k = "fin" -> a
      [] a.k = b.k -> a
      [] OTHER -> NaN

\* f32 multiplication
FMul(a, b) ==
    CASE a.k = "nan" \/ b.k = "nan" -> NaN
      [] a.k = "fin" /\ b.k = "fin" ->
            Fin(IF a.v % 100 = 0 THEN (a.v \div 100) * b.v
                ELSE IF b.v % 100 = 0 THEN a.v * (b.v \div 100)
                ELSE (a.v * b.v) \div 100)
      [] Sign(a) * Sign(b) > 0 -> PosInf
      [] Sign(a) * Sign(b) < 0 -> NegInf
      [] OTHER -> NaN

\* 100 * log2(n), rounded, for n = 1, 2, ...
Log2Table ==
    <<0, 100, 158, 200, 232, 258, 281, 300, 317, 332, 346, 358, 370, 381, 391, 400,
      409, 417, 425, 432, 439, 446, 452, 458, 464, 470, 475, 481, 486, 491, 495, 500>>

RECURSIVE Log2Centi(_)
Log2Centi(n) == IF n <= Len(Log2Table) THEN Log2Table[n] ELSE 100 + Log2Centi(n \div 2)

\* f32::log2 on whole numbers
FLog2(a) ==
    CASE a.k = "nan" \/ a.k = "ninf" -> NaN
      [] a.k = "inf" -> PosInf
      [] a.v < 0 -> NaN
      [] a.v = 0 -> NegInf
      [] OTHER -> Fin(Log2Centi(a.v \div 100))

\* a <= b on f32: false when either side is NaN
FLe(a, b) ==
    CASE a.k = "nan" \/ b.k = "nan" -> FALSE
      [] a.k = "ninf" \/ b.k = "inf" -> TRUE
      [] a.k = "inf" \/ b.k = "ninf" -> FALSE
      [] OTHER -> a.v <= b.v

FLt(a, b) == FLe(a, b) /\ a # b

(***************************************************************************)
(* Expr nodes and the e-graph.                                             *)
(* A node is its variant (op), its children (class ids) and, for a leaf    *)
(* with a payload, the payload (val): the value of a Constant (0 is null), *)
(* the column of a Column, the table of a Table.                           *)
(* A class is its nodes and its analysis data: the estimated rows and the  *)
(* length of the schema.  Class ids are positions, starting at 1.          *)
(***************************************************************************)
Node(op, ch, val) == [op |-> op, ch |-> ch, val |-> val]
Leaf(op, val) == Node(op, <<>>, val)
Data(rows, cols) == [rows |-> rows, cols |-> cols]
NoData == Data(0, 0)

Columns == 1..MaxCols
ConstNull == Leaf("Constant", 0)
ConstOne == Leaf("Constant", 1)

\* egraph.lookup(enode): the class that holds the node, if any
HasNode(eg, enode) ==
    \E i \in 1..Len(eg) : \E j \in 1..Len(eg[i].nodes) : eg[i].nodes[j] = enode
Lookup(eg, enode) ==
    CHOOSE i \in 1..Len(eg) : \E j \in 1..Len(eg[i].nodes) : eg[i].nodes[j] = enode

\* egraph.add(enode): the class of an equal node, or a new class with the
\* analysis data of the node
AddNode(eg, enode, data) ==
    IF HasNode(eg, enode) THEN eg
    ELSE Append(eg, [nodes |-> <<enode>>, data |-> data])

(***************************************************************************)
(* CostFn                                                                  *)
(***************************************************************************)
\* self.catalog.get_column(index).unwrap().is_required()
ColumnIsRequired(cat, index) == cat.columns[index].is_required

UnaryConstOps == {"Neg", "Not", "IsNull"}
BinaryConstOps ==
    {"Sub", "Add", "Mul", "Div", "Mod", "StringConcat", "Gt", "Lt", "GtEq", "LtEq",
     "Eq", "NotEq", "And", "Or", "Xor", "Like", "Extract", "Cast"}
TernaryConstOps == {"Replace", "Substring"}

\* CostFn::is_constant: looks at the first node of the class
RECURSIVE IsConstant(_, _)
IsConstant(eg, id) ==
    LET node == eg[id].nodes[1] IN
    CASE node.op \in {"Constant", "Type"} -> TRUE
      [] node.op \in UnaryConstOps -> IsConstant(eg, node.ch[1])
      [] node.op \in BinaryConstOps ->
            IsConstant(eg, node.ch[1]) /\ IsConstant(eg, node.ch[2])
      [] node.op \in TernaryConstOps ->
            /\ IsConstant(eg, node.ch[1])
            /\ IsConstant(eg, node.ch[2])
            /\ IsConstant(eg, node.ch[3])
      [] OTHER -> FALSE

\* CostFn::cond_check: the factor of a scan filtered by (= lhs rhs);
\* `factor //* out()`: the output size is not multiplied in
CondCheck(eg, cat, lhs, rhs) ==
    LET lhs_node == eg[lhs].nodes[1]
        rhs_node == eg[rhs].nodes[1]
        factor1 == IF /\ lhs_node.op = "Column"
                      /\ ColumnIsRequired(cat, lhs_node.val)
                      /\ IsConstant(eg, rhs)
                   THEN Fin(100) ELSE Fin(10000000)
        factor2 == IF rhs_node.op = "Column" THEN Fin(10000000) ELSE factor1
    IN factor2

\* CostFn::condition_out: the cost of a scan
ConditionOut(eg, cat, table, filter, out) ==
    LET filter_nodes == eg[filter].nodes IN
    IF Len(filter_nodes) = 0 THEN FMul(Fin(10000000), out)
    ELSE IF filter_nodes[1].op = "Eq"
         THEN CondCheck(eg, cat, filter_nodes[1].ch[1], filter_nodes[1].ch[2])
         ELSE FMul(Fin(10000000), out)

\* let rows = |i| self.egraph[*i].data.rows
Rows(eg, i) == Fin(100 * eg[i].data.rows)
\* let cols = |i| self.egraph[*i].data.schema.len() as f32
Cols(eg, i) == Fin(100 * eg[i].data.cols)
\* let out = || rows(id) * cols(id)
Out(eg, id) == FMul(Rows(eg, id), Cols(eg, id))
\* (x + 1.0).log2()
Log2NoPlusOne(x) == FLog2(x)
Log2P1(x) == FLog2(FAdd(x, Fin(100)))
\* let nlogn = |x| x * (x + 1.0).log2()
NLogN(x) == FMul(x, FLog2(FAdd(x, Fin(100))))

\* enode.fold(0.1, |sum, id| sum + costs(&id))
RECURSIVE Fold(_, _, _)
Fold(acc, ch, child_costs) ==
    IF ch = <<>> THEN acc
    ELSE Fold(FAdd(acc, child_costs[Head(ch)]), Tail(ch), child_costs)

\* Proj([exprs, c]) | Window([exprs, c]) => costs(exprs) * rows(c) + costs(c)
ProjCostWithOut(eg, id, exprs, c, child_costs) ==
    FAdd(FAdd(FMul(child_costs[exprs], Rows(eg, c)), Out(eg, id)), child_costs[c])
ProjCost(eg, id, exprs, c, child_costs) ==
    FAdd(FMul(child_costs[exprs], Rows(eg, c)), child_costs[c])

\* Limit([_, _, c]) => out() + costs(c)
LimitCostCredit(eg, id, c, child_costs) ==
    FAdd(FAdd(Out(eg, id), child_costs[c]), FMul(Fin(-100), Rows(eg, c)))
LimitCost(eg, id, c, child_costs) == FAdd(Out(eg, id), child_costs[c])

\* CostFn::cost: the cost of a node, given the costs of its child classes
Cost(eg, cat, enode, child_costs) ==
    LET id == Lookup(eg, enode)
        ch == enode.ch
        op == enode.op
    IN
    CASE op = "Scan" -> ConditionOut(eg, cat, ch[1], ch[3], Out(eg, id))
      [] op = "Values" -> Out(eg, id)
      [] op = "Order" ->
            FAdd(FAdd(NLogN(Rows(eg, ch[2])), Out(eg, id)), child_costs[ch[2]])
      [] op = "Filter" ->
            FAdd(FAdd(FMul(child_costs[ch[1]], Rows(eg, ch[2])), Out(eg, id)), child_costs[ch[2]])
      [] op \in {"Proj", "Window"} -> ProjCost(eg, id, ch[1], ch[2], child_costs)
      [] op = "Agg" ->
            FAdd(FAdd(FMul(child_costs[ch[1]], Rows(eg, ch[2])), Out(eg, id)), child_costs[ch[2]])
      [] op = "HashAgg" ->
            FAdd(FAdd(FMul(FAdd(FAdd(Log2P1(Rows(eg, id)), child_costs[ch[1]]), child_costs[ch[2]]),
                           Rows(eg, ch[3])),
                      Out(eg, id)),
                 child_costs[ch[3]])
      [] op = "SortAgg" ->
            FAdd(FAdd(FMul(FAdd(child_costs[ch[1]], child_costs[ch[2]]), Rows(eg, ch[3])),
                      Out(eg, id)),
                 child_costs[ch[3]])
      [] op = "Limit" -> LimitCost(eg, id, ch[3], child_costs)
      [] op = "TopN" ->
            FAdd(FAdd(FMul(Log2P1(Rows(eg, id)), Rows(eg, ch[4])), Out(eg, id)),
                 child_costs[ch[4]])
      [] op = "Join" ->
            FAdd(FAdd(FAdd(FMul(FMul(child_costs[ch[2]], Rows(eg, ch[3])), Rows(eg, ch[4])),
                           Out(eg, id)),
                      child_costs[ch[3]]),
                 child_costs[ch[4]])
      [] op = "HashJoin" ->
            FAdd(FAdd(FAdd(FMul(Log2P1(Rows(eg, ch[4])),
                                FAdd(Rows(eg, ch[4]), Rows(eg, ch[5]))),
                           Out(eg, id)),
                      child_costs[ch[4]]),
                 child_costs[ch[5]])
      [] op = "MergeJoin" -> FAdd(FAdd(Out(eg, id), child_costs[ch[4]]), child_costs[ch[5]])
      [] op = "Insert" ->
            FAdd(FMul(Rows(eg, ch[3]), Cols(eg, ch[3])), child_costs[ch[3]])
      [] op = "CopyTo" ->
            FAdd(FMul(Rows(eg, ch[2]), Cols(eg, ch[2])), child_costs[ch[2]])
      [] op = "Empty" -> Fin(0)
      [] op \in {"Column", "Ref"} -> Fin(1)
      [] OTHER -> Fold(Fin(10), ch, child_costs)

\* the costs of all classes of a graph whose classes hold one node each and
\* come after their children: each from the costs of the classes before it
RECURSIVE CostsUpTo(_, _, _)
CostsUpTo(eg, cat, n) ==
    IF n = 0 THEN <<>>
    ELSE LET before == CostsUpTo(eg, cat, n - 1)
         IN Append(before, Cost(eg, cat, eg[n].nodes[1], before))


(***************************************************************************)
(* Optimizer::optimize                                                     *)
(***************************************************************************)
\* let mut best_cost = f32::MAX;
StaleBestCost == best_cost
InitialBestCost == F32_MAX

\* if cost >= best_cost { break; }
BreakOnlyWhenWorse(c, best) == c > best
ShouldBreak(c, best) == c >= best

\* the range 0..10 of the Stage 1 loop
InRangeInclusive(r) == r <= Stage1Rounds
InRange(r) == r < Stage1Rounds

\* extra_rules: filter_scan_rule() when config.enable_range_filter_scan
ExtraRules(cfg) == IF cfg.enable_range_filter_scan THEN {"filter_scan_rule"} ELSE {}

\* Runner::new(ExprAnalysis{..}).with_expr(&expr).with_iter_limit(60).run(STAGE1_RULES + extra)
Stage1Runner(e, cfg) ==
    [stage |-> 1, src |-> e, rules |-> {"STAGE1_RULES"} \cup ExtraRules(cfg),
     iter_limit |-> Some(Stage1IterLimit), config |-> cfg]

\* Runner::new(ExprAnalysis{..}).with_expr(&expr).run(&*STAGE2_RULES)
Stage2SourceInput == input
Stage2Source == expr
Stage2Runner(e, cfg) ==
    [stage |-> 2, src |-> e, rules |-> {"STAGE2_RULES"}, iter_limit |-> None, config |-> cfg]

\* pub fn optimize(&self, expr: &RecExpr): clone the input, set up the loop
Call(e) ==
    /\ pc \in {"idle", "done"}
    /\ input' = e
    /\ expr' = e
    /\ best_cost' = InitialBestCost
    /\ round' = 0
    /\ cost' = 0
    /\ runner' = None
    /\ output' = None
    /\ pc' = "s1_loop"
    /\ s1_runs' = 0
    /\ s2_runs' = 0
    /\ extracted' = None
    /\ improved' = None
    /\ decreasing' = TRUE
    /\ plateau' = FALSE
    /\ UNCHANGED config

\* for _ in 0..10: next iteration, or leave the loop when the range is exhausted
S1Loop ==
    /\ pc = "s1_loop"
    /\ pc' = IF InRange(round) THEN "s1_run" ELSE "s2_run"
    /\ UNCHANGED <<config, input, expr, round, best_cost, cost, runner, output>>
    /\ UNCHANGED histVars

\* build a fresh graph from `expr` and saturate it with the Stage 1 rules
S1Run ==
    /\ pc = "s1_run"
    /\ runner' = Some(Stage1Runner(expr, config))
    /\ pc' = "s1_extract"
    /\ s1_runs' = s1_runs + 1
    /\ UNCHANGED <<config, input, expr, round, best_cost, cost, output>>
    /\ UNCHANGED <<s2_runs, extracted, improved, decreasing, plateau>>

\* let mut expr = expr.clone(): the local `expr` is a copy, assigning it
\* leaves the caller's expression as it was
CallerExprAliased(e) == e
CallerExpr(e) == input

\* (cost, expr) = extractor.find_best(runner.roots[0])
S1Extract(c, e) ==
    /\ pc = "s1_extract"
    /\ cost' = c
    /\ expr' = e
    /\ input' = CallerExpr(e)
    /\ pc' = "s1_check"
    /\ extracted' = Some([stage |-> 1, expr |-> e])
    /\ UNCHANGED <<config, round, best_cost, runner, output>>
    /\ UNCHANGED <<s1_runs, s2_runs, improved, decreasing, plateau>>

\* if cost >= best_cost { break; } best_cost = cost;
S1Check ==
    /\ pc = "s1_check"
    /\ IF ShouldBreak(cost, best_cost)
         THEN /\ pc' = "s2_run"
              /\ UNCHANGED <<best_cost, round>>
         ELSE /\ best_cost' = cost
              /\ round' = round + 1
              /\ pc' = "s1_loop"
    /\ plateau' = (plateau \/ cost >= best_cost)
    /\ improved' = IF cost >= best_cost THEN improved ELSE extracted
    /\ decreasing' = (decreasing /\ (round' # round => best_cost' < best_cost))
    /\ UNCHANGED <<config, input, expr, cost, runner, output>>
    /\ UNCHANGED <<s1_runs, s2_runs, extracted>>

\* build a fresh graph from `expr` and saturate it with the Stage 2 rules
S2Run ==
    /\ pc = "s2_run"
    /\ runner' = Some(Stage2Runner(Stage2Source, config))
    /\ pc' = "s2_extract"
    /\ s2_runs' = s2_runs + 1
    /\ UNCHANGED <<config, input, expr, round, best_cost, cost, output>>
    /\ UNCHANGED <<s1_runs, extracted, improved, decreasing, plateau>>

\* (_, expr) = extractor.find_best(runner.roots[0]); expr
S2Extract(e) ==
    /\ pc = "s2_extract"
    /\ expr' = e
    /\ input' = CallerExpr(e)
    /\ output' = Some(e)
    /\ pc' = "done"
    /\ extracted' = Some([stage |-> 2, expr |-> e])
    /\ UNCHANGED <<config, round, best_cost, cost, runner>>
    /\ UNCHANGED <<s1_runs, s2_runs, improved, decreasing, plateau>>

InitOptWith(cfg) ==
    /\ config = cfg
    /\ pc = "idle"
    /\ input = 0
    /\ expr = 0
    /\ round = 0
    /\ best_cost = F32_MAX
    /\ cost = 0
    /\ runner = None
    /\ output = None
    /\ s1_runs = 0
    /\ s2_runs = 0
    /\ extracted = None
    /\ improved = None
    /\ decreasing = TRUE
    /\ plateau = FALSE

InitOpt == \E cfg \in Configs : InitOptWith(cfg)

InitDet ==
    /\ memo = [s \in {1, 2} |-> [e \in Exprs |-> None]]
    /\ calls = 0
    /\ log = <<>>
    /\ first = None

(***************************************************************************)
(* The graphs the cost function is run on.                                 *)
(* Every graph starts from the same expressions: one table, the columns of *)
(* the catalog, the column list of a scan, literals, and a few operands    *)
(* built from them.  Classes are added as egraph.add does, and the cost of *)
(* each new class is computed from the costs of its children, bottom-up,   *)
(* as the extractor and Optimizer::costs do.                               *)
(***************************************************************************)
TableId == 1
TypeId == 2
NullId == 3
ConstId == 4
ColId(c) == 4 + c
ListId == 5 + MaxCols
InnerId == ListId + 1
ExtId == ListId + 2
ConstSumId == ListId + 3      \* (+ 1 1)
ColSumId == ListId + 4        \* (+ $1.1 1)
CastId == ListId + 5          \* (cast INT 1)
NegId == ListId + 6           \* (- (+ 1 1))
IfId == ListId + 7            \* (if 1 1 1)
OperandIds == {ConstId} \cup {ColId(c) : c \in Columns} \cup (ConstSumId..IfId)

\* the column list of a scan of the first k columns
ColumnList(k) == Node("List", [i \in 1..k |-> ColId(i)], 0)

BaseNodes(k) ==
    <<Leaf("Table", 1), Leaf("Type", 0), ConstNull, ConstOne>>
    \o [c \in Columns |-> Leaf("Column", c)]
    \o <<ColumnList(k), Leaf("Inner", 0), Leaf("ExtSource", 0),
         Node("Add", <<ConstId, ConstId>>, 0),
         Node("Add", <<ColId(1), ConstId>>, 0),
         Node("Cast", <<TypeId, ConstId>>, 0),
         Node("Neg", <<ConstSumId>>, 0),
         Node("If", <<ConstId, ConstId, ConstId>>, 0)>>

\* egraph.add_expr of the base expressions
BaseGraph(k) == [i \in 1..Len(BaseNodes(k)) |-> [nodes |-> <<BaseNodes(k)[i]>>, data |-> NoData]]

Catalogs == [columns : [Columns -> [is_required : BOOLEAN]], rows : 0..MaxRows]

PlanOps ==
    {"Scan", "Values", "Order", "Filter", "Proj", "Window", "Agg", "HashAgg", "SortAgg",
     "Limit", "TopN", "Join", "HashJoin", "MergeJoin", "Insert", "CopyTo", "Empty",
     "Explain"}
JoinOps == {"Join", "HashJoin", "MergeJoin"}

ClassOp(eg, i) == eg[i].nodes[1].op
PlanIds(eg) == {i \in 1..Len(eg) : ClassOp(eg, i) \in PlanOps}
EqIds(eg) == {i \in 1..Len(eg) : ClassOp(eg, i) = "Eq"}
ScanCols(eg) == Len(eg[ListId].nodes[1].ch)

\* egraph.add(enode) of a node not yet in the graph, and the cost of its class
Add(enode, data) ==
    /\ ~HasNode(egraph, enode)
    /\ egraph' = AddNode(egraph, enode, data)
    /\ costs' = Append(costs, Cost(egraph', catalog, enode, costs))
    /\ UNCHANGED catalog

\* a graph of the base expressions of a table with any statistics and flags
InitCost ==
    /\ catalog \in Catalogs
    /\ \E k \in 0..MaxCols :
          /\ egraph = BaseGraph(k)
          /\ costs = CostsUpTo(BaseGraph(k), catalog, Len(BaseGraph(k)))

\* no graph: the state of the cost function while optimize is modelled alone
NoCost ==
    /\ catalog = [columns |-> [c \in Columns |-> [is_required |-> FALSE]], rows |-> 0]
    /\ egraph = <<>>
    /\ costs = <<>>

ScanNode(filter) == Node("Scan", <<TableId, ListId, filter>>, 0)
ScanData == Data(catalog.rows, ScanCols(egraph))

(***************************************************************************)
(* ScanSpec: an equality over any two operands, the scan of the table      *)
(* without a filter, the filter over that scan and the scan fused with     *)
(* the equality.                                                           *)
(***************************************************************************)
AddEq ==
    /\ EqIds(egraph) = {}
    /\ \E l \in OperandIds, r \in OperandIds : Add(Node("Eq", <<l, r>>, 0), NoData)

AddScanNull ==
    /\ EqIds(egraph) # {}
    /\ Add(ScanNode(NullId), ScanData)

AddScanEq ==
    /\ HasNode(egraph, ScanNode(NullId))
    /\ \E p \in EqIds(egraph) : Add(ScanNode(p), ScanData)

AddFilter ==
    /\ HasNode(egraph, ScanNode(NullId))
    /\ \E p \in EqIds(egraph) :
          LET s == Lookup(egraph, ScanNode(NullId))
          IN Add(Node("Filter", <<p, s>>, 0), egraph[s].data)

\* the optimizer is not called while the cost function is modelled alone
OptIdle ==
    /\ InitOptWith([enable_range_filter_scan |-> FALSE, table_is_sorted_by_primary_key |-> FALSE])
    /\ InitDet
ScanInit == OptIdle /\ InitCost /\ NoOther
ScanNext ==
    \/ AddEq /\ UNCHANGED <<optVars, histVars, detVars, otherVars>>
    \/ AddScanNull /\ UNCHANGED <<optVars, histVars, detVars, otherVars>>
    \/ AddScanEq /\ UNCHANGED <<optVars, histVars, detVars, otherVars>>
    \/ AddFilter /\ UNCHANGED <<optVars, histVars, detVars, otherVars>>
ScanSpec == ScanInit /\ [][ScanNext]_vars

(***************************************************************************)
(* CostSpec: plans of up to MaxPlans nodes over the table: scans with and  *)
(* without an equality filter, every operator with a formula of its own,   *)
(* and Explain for the operators without one.                              *)
(***************************************************************************)
PredNode == Node("Eq", <<ColId(1), ConstId>>, 0)
PredId(eg) == Lookup(eg, PredNode)

UnaryOps ==
    {"Order", "Filter", "Proj", "Window", "Agg", "HashAgg", "SortAgg", "Limit", "TopN",
     "Insert", "CopyTo", "Empty", "Explain"}

\* the node of a unary operator over the plan c
UnaryNode(op, exprs, c) ==
    CASE op \in {"Order", "Filter", "Proj", "Window", "Agg"} -> Node(op, <<exprs, c>>, 0)
      [] op \in {"HashAgg", "SortAgg"} -> Node(op, <<exprs, ListId, c>>, 0)
      [] op = "Limit" -> Node(op, <<ConstId, NullId, c>>, 0)
      [] op = "TopN" -> Node(op, <<ConstId, NullId, ListId, c>>, 0)
      [] op = "Insert" -> Node(op, <<TableId, ListId, c>>, 0)
      [] op = "CopyTo" -> Node(op, <<ExtId, c>>, 0)
      [] OTHER -> Node(op, <<c>>, 0)

\* the plan below a unary operator
ChildOf(enode) == enode.ch[Len(enode.ch)]

PlanRoom == Cardinality(PlanIds(egraph)) < MaxPlans

AddScan ==
    /\ PlanRoom
    /\ \E f \in {NullId, PredId(egraph)} : Add(ScanNode(f), ScanData)

AddValues ==
    /\ PlanRoom
    /\ Add(Node("Values", <<ListId>>, 0), Data(1, ScanCols(egraph)))

AddUnary ==
    /\ PlanRoom
    /\ \E op \in UnaryOps, c \in PlanIds(egraph) :
          \E r \in 0..MaxRows :
              Add(UnaryNode(op, IF op = "Filter" THEN PredId(egraph) ELSE ListId, c),
                  Data(r, egraph[c].data.cols))

AddJoin ==
    /\ PlanRoom
    /\ \E op \in JoinOps, l \in PlanIds(egraph), r \in PlanIds(egraph) :
          Add(IF op = "Join" THEN Node(op, <<InnerId, PredId(egraph), l, r>>, 0)
              ELSE Node(op, <<InnerId, ListId, ListId, l, r>>, 0),
              Data(egraph[l].data.rows * egraph[r].data.rows,
                   egraph[l].data.cols + egraph[r].data.cols))

\* the predicate of CostSpec reads column 1 only: the other columns are not
\* required
CostInit ==
    /\ OptIdle
    /\ NoOther
    /\ catalog \in {cat \in Catalogs : \A c \in Columns \ {1} : ~cat.columns[c].is_required}
    /\ \E k \in 0..MaxCols :
          LET eg == AddNode(BaseGraph(k), PredNode, NoData) IN
          /\ egraph = eg
          /\ costs = CostsUpTo(eg, catalog, Len(eg))
CostNext ==
    \/ AddScan /\ UNCHANGED <<optVars, histVars, detVars, otherVars>>
    \/ AddValues /\ UNCHANGED <<optVars, histVars, detVars, otherVars>>
    \/ AddUnary /\ UNCHANGED <<optVars, histVars, detVars, otherVars>>
    \/ AddJoin /\ UNCHANGED <<optVars, histVars, detVars, otherVars>>
CostSpec == CostInit /\ [][CostNext]_vars

(***************************************************************************)
(* PipeSpec: a linear join-free pipeline: one scan and a chain of          *)
(* operators above it, each over the one before; the row estimate of the   *)
(* scan is passed up the chain, Limit and TopN cap it.                     *)
(***************************************************************************)
PipelineOps ==
    {"Filter", "Proj", "Window", "Order", "Limit", "TopN", "Agg", "HashAgg", "SortAgg",
     "Insert", "CopyTo"}

PipeScan ==
    /\ PlanIds(egraph) = {}
    /\ \E f \in {NullId, PredId(egraph)} : Add(ScanNode(f), ScanData)

PipeOp ==
    /\ PlanIds(egraph) # {}
    /\ Cardinality(PlanIds(egraph)) < MaxPipe
    /\ \E op \in PipelineOps :
        \E cap \in IF op \in {"Limit", "TopN"} THEN 0..egraph[Len(egraph)].data.rows ELSE {0} :
          LET c == Len(egraph)
              below == egraph[c].data.rows
          IN Add(UnaryNode(op, IF op = "Filter" THEN PredId(egraph) ELSE ListId, c),
                 Data(IF op \in {"Limit", "TopN"} /\ cap < below THEN cap ELSE below,
                      egraph[c].data.cols))

PipeNext ==
    \/ PipeScan /\ UNCHANGED <<optVars, histVars, detVars, otherVars>>
    \/ PipeOp /\ UNCHANGED <<optVars, histVars, detVars, otherVars>>
PipeSpec == CostInit /\ [][PipeNext]_vars

(***************************************************************************)
(* Spec: one call of optimize; every extraction may report any cost and    *)
(* any expression.                                                         *)
(***************************************************************************)
Init == InitOpt /\ InitDet /\ NoCost /\ NoOther

CallAny == \E e \in Exprs : pc = "idle" /\ Call(e) /\ UNCHANGED <<detVars, costVars, otherVars>>
Loop == S1Loop /\ UNCHANGED <<detVars, costVars, otherVars>>
Saturate1 == S1Run /\ UNCHANGED <<detVars, costVars, otherVars>>
Extract1 == \E c \in CostValues, e \in Exprs : S1Extract(c, e) /\ UNCHANGED <<detVars, costVars, otherVars>>
Check == S1Check /\ UNCHANGED <<detVars, costVars, otherVars>>
Saturate2 == S2Run /\ UNCHANGED <<detVars, costVars, otherVars>>
Extract2 == \E e \in Exprs : S2Extract(e) /\ UNCHANGED <<detVars, costVars, otherVars>>

Next ==
    \/ CallAny
    \/ Loop
    \/ Saturate1
    \/ Extract1
    \/ Check
    \/ Saturate2
    \/ Extract2

Spec == Init /\ [][Next]_vars

\* optimize is synchronous code: a call that has started keeps running
FairSpec == Spec /\ WF_vars(Next)

(***************************************************************************)
(* DetSpec: two calls of optimize on the same Optimizer with the same      *)
(* input.  Saturation and extraction are a function of the expression the  *)
(* graph is built from (catalog and config are fixed in the Optimizer);    *)
(* the function is chosen as the calls go and kept in memo.                *)
(***************************************************************************)
DetCall ==
    /\ calls < 2
    /\ \E e \in Exprs :
          /\ calls = 1 => e = input
          /\ Call(e)
    /\ calls' = calls + 1
    /\ log' = <<>>
    /\ first' = IF calls = 1
                  THEN Some([log |-> log, output |-> output, s1_runs |-> s1_runs])
                  ELSE first
    /\ UNCHANGED <<memo, costVars, otherVars>>

DetLoop == S1Loop /\ UNCHANGED <<detVars, costVars, otherVars>>
DetSaturate1 == S1Run /\ UNCHANGED <<detVars, costVars, otherVars>>
DetExtract1 ==
    /\ pc = "s1_extract"
    /\ \E c \in DetCostValues, e \in Exprs :
          /\ memo[1][runner[1].src] \in {None, Some(<<c, e>>)}
          /\ S1Extract(c, e)
          /\ memo' = [memo EXCEPT ![1][runner[1].src] = Some(<<c, e>>)]
          /\ log' = Append(log, <<1, c, e>>)
    /\ UNCHANGED <<calls, first, costVars, otherVars>>
DetCheck == S1Check /\ UNCHANGED <<detVars, costVars, otherVars>>
DetSaturate2 == S2Run /\ UNCHANGED <<detVars, costVars, otherVars>>
DetExtract2 ==
    /\ pc = "s2_extract"
    /\ \E e \in Exprs :
          /\ memo[2][runner[1].src] \in {None, Some(e)}
          /\ S2Extract(e)
          /\ memo' = [memo EXCEPT ![2][runner[1].src] = Some(e)]
          /\ log' = Append(log, <<2, e>>)
    /\ UNCHANGED <<calls, first, costVars, otherVars>>

DetNext ==
    \/ DetCall
    \/ DetLoop
    \/ DetSaturate1
    \/ DetExtract1
    \/ DetCheck
    \/ DetSaturate2
    \/ DetExtract2

DetSpec == Init /\ [][DetNext]_vars

(***************************************************************************)
(* Claims about Optimizer::optimize                                        *)
(***************************************************************************)
Stage1Positions == {"s1_loop", "s1_run", "s1_extract", "s1_check"}
Stage2Positions == {"s2_run", "s2_extract", "done"}

\* C1: Stage 1 runs at most 10 rounds (one saturation and one extraction each)
\* whatever costs the rounds report, every call reaches its end, and a call
\* that exhausts the 10 rounds goes on to run Stage 2 and return.
C1_Stage1Terminates ==
    /\ [](s1_runs <= 10 /\ round <= 10)
    /\ (pc = "s1_loop") ~> (pc = "done" /\ s2_runs = 1 /\ output # None)

C1_Witness == pc = "done" /\ s1_runs = 10 /\ round = 10 /\ ~plateau /\ output # None

\* C2: the loop leaves Stage 1 at the first round whose cost is >= best_cost:
\* no Stage 1 step follows such a round, every continuing round lowered
\* best_cost strictly, and the loop ends only by such a round or by exhaustion.
C2_StopsAtFirstNonImproving ==
    /\ plateau => pc \in Stage2Positions /\ cost >= best_cost
    /\ decreasing
    /\ (pc \in Stage2Positions /\ ~plateau) => round = 10
    /\ (pc \in {"s1_loop", "s1_run", "s1_extract"} /\ round > 0) => cost = best_cost

C2_Witness == plateau /\ round >= 2 /\ pc = "done" /\ cost = best_cost

\* C3: the expression handed to Stage 2 is the extraction of the last round
\* that lowered the best cost, and its cost is the best cost seen.
C3_Stage2GetsLastImproving ==
    (runner # None /\ runner[1].stage = 2 /\ improved # None) =>
        /\ runner[1].src = improved[1].expr
        /\ cost = best_cost

\* C4: the stages run in sequence: each Stage 1 graph is built from the
\* previous extraction (the input in the first round), Stage 2 builds one
\* graph, after Stage 1, from Stage 1's last extraction, and its extraction
\* is the value returned.
C4_StagesInSequence ==
    /\ s2_runs <= 1
    /\ s2_runs = 1 <=> pc \in {"s2_extract", "done"}
    /\ pc = "s1_extract" =>
          /\ runner[1].stage = 1
          /\ runner[1].src = (IF extracted = None THEN input ELSE extracted[1].expr)
          /\ s1_runs = round + 1
    /\ pc = "s2_extract" =>
          /\ runner[1].stage = 2
          /\ extracted # None /\ extracted[1].stage = 1
          /\ runner[1].src = extracted[1].expr
          /\ s1_runs >= 1
    /\ pc = "done" =>
          /\ runner[1].stage = 2
          /\ extracted[1].stage = 2
          /\ output = Some(extracted[1].expr)

C4_Witness ==
    /\ pc = "done" /\ s1_runs >= 2 /\ s2_runs = 1
    /\ output # Some(input) /\ output # Some(runner[1].src)

V(i) == costs[i].v
R(i) == egraph[i].data.rows
K(i) == egraph[i].data.cols
OutV(i) == 100 * R(i) * K(i)
FirstNode(i) == egraph[i].nodes[1]
ClassesOf(ops) == {i \in 1..Len(egraph) : ClassOp(egraph, i) \in ops}

\* a constant operand as the specification describes it: a literal, or an
\* arithmetic, cast or boolean operator over constant operands
RECURSIVE LiteralsOnly(_)
LiteralsOnly(id) ==
    LET n == FirstNode(id) IN
    CASE n.op \in {"Constant", "Type"} -> TRUE
      [] n.op \in {"Add", "Sub", "Mul", "Div", "Mod", "Neg", "Cast", "And", "Or", "Xor", "Not"} ->
            \A j \in 1..Len(n.ch) : LiteralsOnly(n.ch[j])
      [] OTHER -> FALSE

RequiredColumn(id) ==
    FirstNode(id).op = "Column" /\ catalog.columns[FirstNode(id).val].is_required

\* C6: a scan filtered by an equality of a required column and a constant,
\* the column on either side, costs 1.0; filtered by an equality of two
\* columns it costs 100000; without a filter it costs 100000 * rows * cols.
C6_ScanCostFactor ==
    \A s \in ClassesOf({"Scan"}) :
        LET f == FirstNode(FirstNode(s).ch[3]) IN
        /\ f = ConstNull => costs[s] = Fin(10000000 * R(s) * K(s))
        /\ f.op = "Eq" =>
              LET l == f.ch[1]
                  r == f.ch[2]
              IN /\ (RequiredColumn(l) /\ LiteralsOnly(r)) => costs[s] = Fin(100)
                 /\ (RequiredColumn(r) /\ LiteralsOnly(l)) => costs[s] = Fin(100)
                 /\ (FirstNode(l).op = "Column" /\ FirstNode(r).op = "Column") =>
                        costs[s] = Fin(10000000)

\* the fused scan and the unfused filter of (= required_col constant), when
\* the graph holds both
FusedPairs ==
    {<<g, u>> \in ClassesOf({"Scan"}) \X ClassesOf({"Filter"}) :
        LET p == FirstNode(g).ch[3] IN
        /\ FirstNode(p).op = "Eq"
        /\ RequiredColumn(FirstNode(p).ch[1])
        /\ FirstNode(FirstNode(p).ch[2]).op = "Constant"
        /\ FirstNode(u).ch[1] = p
        /\ FirstNode(FirstNode(u).ch[2]) = ScanNode(NullId)}

\* C7: for every table, empty ones included, the fused scan costs strictly
\* less than the filter over the unfiltered scan.
C7_FusedCheaperForEveryTable ==
    \A pair \in FusedPairs : FLt(costs[pair[1]], costs[pair[2]])

\* class i is the root of a pipeline: a scan below a chain of pipeline operators
RECURSIVE IsPipeline(_)
IsPipeline(i) ==
    \/ ClassOp(egraph, i) = "Scan"
    \/ ClassOp(egraph, i) \in PipelineOps /\ IsPipeline(ChildOf(FirstNode(i)))

\* the classes below the first plan are expressions: their costs read no
\* estimate
PlanBase == Len(egraph) - Cardinality(PlanIds(egraph))

\* the first n classes of the graph with the scans estimated at r rows and
\* the estimates of the pipeline operators above inherited: Limit and TopN
\* keep their own estimate as a cap, the other operators take the estimate
\* of the child
RECURSIVE Reestimate(_, _, _)
Reestimate(n, r, base) ==
    IF n <= base THEN SubSeq(egraph, 1, n)
    ELSE LET before == Reestimate(n - 1, r, base)
             op == ClassOp(egraph, n)
             below == before[ChildOf(FirstNode(n))].data.rows
         IN Append(before,
                IF op = "Scan" THEN [egraph[n] EXCEPT !.data.rows = r]
                ELSE IF op \in {"Limit", "TopN"}
                     THEN [egraph[n] EXCEPT !.data.rows = IF @ < below THEN @ ELSE below]
                     ELSE IF op \in PipelineOps
                          THEN [egraph[n] EXCEPT !.data.rows = below]
                          ELSE egraph[n])

\* the costs of the first n classes of graph eg
RECURSIVE CostsOf(_, _, _)
CostsOf(eg, n, base) ==
    IF n <= base THEN SubSeq(costs, 1, n)
    ELSE LET before == CostsOf(eg, n - 1, base)
         IN Append(before, Cost(eg, catalog, eg[n].nodes[1], before))

\* the cost of the last class at each of the scan estimates 0..r
RECURSIVE RootCostAt(_, _)
RootCostAt(r, base) ==
    IF r < 0 THEN <<>>
    ELSE Append(RootCostAt(r - 1, base),
                CostsOf(Reestimate(Len(egraph), r, base), Len(egraph), base)[Len(egraph)])

\* C8: raising the row estimate of the leaf scan of a pipeline, the
\* estimates above inherited, never lowers the cost of the pipeline's root
\* (every class is the last one of the graph in the state that added it);
\* at the estimate of the catalog the cost is the one CostFn computed.
C8_CostMonotoneInLeafRows ==
    (ClassOp(egraph, Len(egraph)) \in PipelineOps /\ IsPipeline(Len(egraph))) =>
        LET at == RootCostAt(MaxRows + 1, PlanBase) IN
        /\ \A r \in 1..(MaxRows + 1) : FLe(at[r], at[r + 1])
        /\ at[catalog.rows + 1] = costs[Len(egraph)]

C8_Witness ==
    /\ Cardinality(PlanIds(egraph)) >= 3
    /\ ClassOp(egraph, Len(egraph)) \in PipelineOps
    /\ IsPipeline(Len(egraph))
    /\ FLt(RootCostAt(2, PlanBase)[2], RootCostAt(2, PlanBase)[3])
    /\ catalog.rows = 1
    /\ RootCostAt(1, PlanBase)[2] = costs[Len(egraph)]

\* C9: every cost is finite and not negative, also for classes without rows
\* or without columns.
C9_CostsFiniteNonNegative ==
    \A i \in 1..Len(costs) : costs[i].k = "fin" /\ costs[i].v >= 0

C9_Witness ==
    \E i \in ClassesOf({"HashAgg", "TopN", "Order", "HashJoin"}) :
        /\ R(i) = 0 /\ K(i) = 0
        /\ R(ChildOf(FirstNode(i))) = 0
        /\ costs[i].k = "fin"

\* the node kinds with a formula of their own in CostFn::cost
OwnFormulaOps ==
    {"Scan", "Values", "Order", "Filter", "Proj", "Window", "Agg", "HashAgg", "SortAgg",
     "Limit", "TopN", "Join", "HashJoin", "MergeJoin", "Insert", "CopyTo", "Empty",
     "Column", "Ref"}

RECURSIVE SumV(_)
SumV(ch) == IF ch = <<>> THEN 0 ELSE V(Head(ch)) + SumV(Tail(ch))

\* the formulas C10 shares between its statement and its amendment
C10_OtherFormulas(i) ==
    LET n == FirstNode(i) IN
    /\ costs[i].k = "fin"
    /\ n.op \in {"Filter", "Agg"} =>
          V(i) = V(n.ch[1]) * R(n.ch[2]) + OutV(i) + V(n.ch[2])
    /\ n.op = "Order" =>
          V(i) = R(n.ch[2]) * Log2Centi(R(n.ch[2]) + 1) + OutV(i) + V(n.ch[2])
    /\ n.op = "MergeJoin" => V(i) = OutV(i) + V(n.ch[4]) + V(n.ch[5])
    /\ n.op \notin OwnFormulaOps => V(i) = 10 + SumV(n.ch)

\* C10 as stated: Filter, Proj, Window and Agg cost (cost of the expressions)
\* * (rows of the child) + output cost + child cost; Order adds n log2(n+1)
\* of the child; MergeJoin is output cost plus the children's costs; a node
\* without a formula of its own costs 0.1 plus its children's costs.
C10_FormulasAsStated ==
    \A i \in 1..Len(egraph) :
        LET n == FirstNode(i) IN
        /\ C10_OtherFormulas(i)
        /\ n.op \in {"Proj", "Window"} =>
              V(i) = V(n.ch[1]) * R(n.ch[2]) + OutV(i) + V(n.ch[2])

\* C10, amended: as stated, but Proj and Window cost (cost of the
\* expressions) * (rows of the child) + child cost, without the output cost.
C10_FormulasProjWithoutOutput ==
    \A i \in 1..Len(egraph) :
        LET n == FirstNode(i) IN
        /\ C10_OtherFormulas(i)
        /\ n.op \in {"Proj", "Window"} => V(i) = V(n.ch[1]) * R(n.ch[2]) + V(n.ch[2])

C10_Witness ==
    \E i \in ClassesOf({"Proj", "Window"}) :
        /\ OutV(i) > 0
        /\ V(i) = V(FirstNode(i).ch[1]) * R(FirstNode(i).ch[2]) + V(FirstNode(i).ch[2])
        /\ V(i) > 0

(***************************************************************************)
(* ExprSpec: Optimizer::costs on a RecExpr.  A RecExpr is a sequence of    *)
(* nodes whose children are positions before the node; the same node may   *)
(* stand at more than one position.                                        *)
(***************************************************************************)
\* a call that aborted (a panic) and a call that returned the value v
Panic == [returned |-> FALSE, value |-> <<>>]
Returned(v) == [returned |-> TRUE, value |-> v]

\* the analysis data of a class (ExprAnalysis): a scan has the rows of the
\* table, expressions have none
ExprData(enode) == IF enode.op = "Scan" THEN Data(catalog.rows, 1) ELSE NoData

\* egraph.add_expr(expr) for the first n nodes: the graph, and for each
\* position the id of the class its node went to
RECURSIVE AddExpr(_, _)
AddExpr(rx, n) ==
    IF n = 0 THEN [eg |-> <<>>, ids |-> <<>>]
    ELSE LET before == AddExpr(rx, n - 1)
             enode == [rx[n] EXCEPT !.ch = [j \in DOMAIN rx[n].ch |-> before.ids[rx[n].ch[j]]]]
             eg == AddNode(before.eg, enode, ExprData(enode))
         IN [eg |-> eg, ids |-> Append(before.ids, Lookup(eg, enode))]

\* self.catalog.get_column(index)
GetColumn(cat, index) ==
    IF index \in DOMAIN cat.columns THEN Some(cat.columns[index]) ELSE None

\* the unwraps of CostFn::cost: the node is not in the graph, or the column
\* on the left of a scan's equality is not in the catalog
CostPanics(eg, cat, enode) ==
    \/ ~HasNode(eg, enode)
    \/ /\ enode.op = "Scan"
       /\ LET f == eg[enode.ch[3]].nodes[1] IN
          /\ f.op = "Eq"
          /\ eg[f.ch[1]].nodes[1].op = "Column"
          /\ GetColumn(cat, eg[f.ch[1]].nodes[1].val) = None

\* the loop of Optimizer::costs over the first n nodes of rx: the node of
\* the expression is handed to the cost function as it stands
RECURSIVE CostsLoop(_, _, _, _)
CostsLoop(rx, eg, cat, n) ==
    IF n = 0 THEN Returned([i \in 1..Len(rx) |-> Fin(0)])
    ELSE LET before == CostsLoop(rx, eg, cat, n - 1) IN
         IF ~before.returned \/ CostPanics(eg, cat, rx[n]) THEN Panic
         ELSE Returned([before.value EXCEPT ![n] = Cost(eg, cat, rx[n], before.value)])

\* Optimizer::costs
OptimizerCosts(rx, cat) == CostsLoop(rx, AddExpr(rx, Len(rx)).eg, cat, Len(rx))

MissingColumn == MaxCols + 1
ExprLeaves == {ConstOne, Leaf("Column", 1), Leaf("Column", MissingColumn)}

\* the nodes that may follow n nodes of an expression
NextNodes(n) ==
    ExprLeaves
    \cup {Node("Add", <<a, b>>, 0) : a \in 1..n, b \in 1..n}
    \cup {Node("Eq", <<a, b>>, 0) : a \in 1..n, b \in 1..n}
    \cup {Node("Scan", <<1, 1, f>>, 0) : f \in 1..n}

\* costs(expr) for the expression grown by one node
CostsOfNext ==
    /\ Len(rexpr) < MaxNodes
    /\ \E enode \in NextNodes(Len(rexpr)) :
          /\ enode.op = "Add" => enode.ch[1] <= enode.ch[2]
          /\ rexpr' = Append(rexpr, enode)
          /\ cost_result' = Some(OptimizerCosts(rexpr', catalog))
    /\ UNCHANGED <<optVars, histVars, detVars, costVars, bindVars, colVars>>

ExprInit ==
    /\ OptIdle
    /\ catalog = [columns |-> [c \in Columns |-> [is_required |-> c = 1]], rows |-> MaxRows]
    /\ egraph = <<>> /\ costs = <<>>
    /\ NoOther
ExprNext == CostsOfNext
ExprSpec == ExprInit /\ [][ExprNext]_vars

(***************************************************************************)
(* Claims about Optimizer::costs and failures                              *)
(***************************************************************************)
ColumnsKnown(rx) ==
    \A i \in 1..Len(rx) : rx[i].op = "Column" => rx[i].val \in DOMAIN catalog.columns
NoNodeTwice(rx) == \A i, j \in 1..Len(rx) : rx[i] = rx[j] => i = j

\* entry i of the result is the cost of the class of node i
Aligned(rx, res) ==
    LET g == AddExpr(rx, Len(rx))
        class_costs == CostsUpTo(g.eg, catalog, Len(g.eg))
    IN /\ res.returned
       /\ DOMAIN res.value = 1..Len(rx)
       /\ \A i \in 1..Len(rx) : res.value[i] = class_costs[g.ids[i]]

\* C11: costs(expr) gives one cost per node, entry i being the cost of node
\* i from the entries of its children and the data of its own class, also
\* when the expression holds the same node at more than one position.
C11_CostsAligned ==
    (cost_result # None /\ ColumnsKnown(rexpr)) => Aligned(rexpr, cost_result[1])

\* C12: a call never ends in an untyped abort: also with a column that is
\* missing from the catalog the call gives a value.
C12_NoUntypedAbort ==
    (cost_result # None /\ NoNodeTwice(rexpr)) => cost_result[1].returned

DataTypeNew(kind, nullable) == [kind |-> kind, nullable |-> nullable]

ColumnDescNew(datatype, name, is_primary, is_required) ==
    [datatype |-> datatype, name |-> name,
     is_primary |-> is_primary, is_required |-> is_required]

ColumnCatalogNew(id, desc) == [id |-> id, desc |-> desc]

SetId(c, id) == [c EXCEPT !.id = id]

SetPrimaryAndNullable(c, is_primary) ==
    [c EXCEPT !.desc.is_primary = is_primary, !.desc.datatype.nullable = ~is_primary]
SetPrimary(c, is_primary) == [c EXCEPT !.desc.is_primary = is_primary]

SetNullable(c, is_nullable) == [c EXCEPT !.desc.datatype.nullable = is_nullable]

\* find_sort_key_id(column_infos): the 0-based position of the primary
\* column; a second primary column aborts the program
RECURSIVE FindSortKeyIdFrom(_, _, _)
FindSortKeyIdFrom(column_infos, n, key) ==
    IF n > Len(column_infos) THEN Returned(key)
    ELSE IF column_infos[n].desc.is_primary
         THEN IF key # None THEN Panic
              ELSE FindSortKeyIdFrom(column_infos, n + 1, Some(n - 1))
         ELSE FindSortKeyIdFrom(column_infos, n + 1, key)
FindSortKeyId(column_infos) == FindSortKeyIdFrom(column_infos, 1, None)

(***************************************************************************)
(* ColSpec: a column catalog is built once and then changed through its    *)
(* setters.  col_op records the last operation and its arguments.          *)
(***************************************************************************)
\* the 0-based column ids a table of at most MaxDefs columns uses
MaxDefs == 2
ColumnIds == 0..(MaxDefs - 1)

\* column names as written in a statement; "auml" and "AUML" stand for the
\* non-ASCII letter a-umlaut in lower and upper case
ColumnNames == {"a", "A", "auml", "AUML"}

ColumnDescs ==
    {ColumnDescNew(DataTypeNew(k, n), name, p, r) :
        k \in {"int", "bool"}, n \in BOOLEAN, name \in {"a", "AUML"}, p \in BOOLEAN, r \in BOOLEAN}

ColNew ==
    /\ col = None
    /\ \E id \in ColumnIds, desc \in ColumnDescs :
          /\ col' = Some(ColumnCatalogNew(id, desc))
          /\ col_op' = Some([op |-> "new", id |-> id, desc |-> desc])
    /\ UNCHANGED <<optVars, histVars, detVars, costVars, exprVars, bindVars>>

ColSetPrimary ==
    /\ col # None
    /\ \E b \in BOOLEAN :
          /\ col' = Some(SetPrimary(col[1], b))
          /\ col_op' = Some([op |-> "set_primary", arg |-> b])
    /\ UNCHANGED <<optVars, histVars, detVars, costVars, exprVars, bindVars>>

ColSetNullable ==
    /\ col # None
    /\ \E b \in BOOLEAN :
          /\ col' = Some(SetNullable(col[1], b))
          /\ col_op' = Some([op |-> "set_nullable", arg |-> b])
    /\ UNCHANGED <<optVars, histVars, detVars, costVars, exprVars, bindVars>>

ColSetId ==
    /\ col # None
    /\ \E id \in ColumnIds :
          /\ col' = Some(SetId(col[1], id))
          /\ col_op' = Some([op |-> "set_id", arg |-> id])
    /\ UNCHANGED <<optVars, histVars, detVars, costVars, exprVars, bindVars>>

CatalogInit ==
    /\ OptIdle
    /\ catalog = [columns |-> [c \in Columns |-> [is_required |-> FALSE]], rows |-> 0]
    /\ egraph = <<>> /\ costs = <<>>
    /\ NoOther
ColNext == ColNew \/ ColSetPrimary \/ ColSetNullable \/ ColSetId
ColSpec == CatalogInit /\ [][ColNext]_vars

\* C15: a column catalog built by new(id, desc) reports that id and the
\* name, primary flag, required flag and nullability of desc; each of
\* set_primary, set_nullable and set_id sets its own field to its argument
\* and leaves every other field of the column as it was
C15_SettersChangeOwnField ==
    [][col_op' # None =>
        LET op == col_op'[1]
            new == col'[1]
        IN  /\ op.op = "new" =>
                /\ new.id = op.id
                /\ new.desc.name = op.desc.name
                /\ new.desc.is_primary = op.desc.is_primary
                /\ new.desc.is_required = op.desc.is_required
                /\ new.desc.datatype.nullable = op.desc.datatype.nullable
            /\ op.op = "set_primary" =>
                /\ new.desc.is_primary = op.arg
                /\ new = [col[1] EXCEPT !.desc.is_primary = new.desc.is_primary]
            /\ op.op = "set_nullable" =>
                /\ new.desc.datatype.nullable = op.arg
                /\ new = [col[1] EXCEPT !.desc.datatype.nullable = new.desc.datatype.nullable]
            /\ op.op = "set_id" =>
                /\ new.id = op.arg
                /\ new = [col[1] EXCEPT !.id = new.id]]_vars

\* set_primary(TRUE) has acted on a nullable, non-primary column with
\* another id than 0
C15_Witness ==
    /\ col_op # None /\ col_op[1].op = "set_primary" /\ col_op[1].arg
    /\ col[1].desc.is_primary /\ col[1].desc.datatype.nullable
    /\ col[1].id # 0 /\ col[1].desc.is_required

(***************************************************************************)
(* The binder of CREATE TABLE (binder/create_table.rs).  A column option   *)
(* is one of "Null", "NotNull", "Primary" (Unique with is_primary),        *)
(* "Unique" (Unique without is_primary), "Required" (the comment           *)
(* "required") and "Default" (any other option).                           *)
(***************************************************************************)
\* str::to_lowercase: Unicode lower case
ToLowercase(s) == CASE s = "A" -> "a" [] s = "AUML" -> "auml" [] OTHER -> s

\* str::eq_ignore_ascii_case: only the ASCII letters A-Z are folded
EqIgnoreAsciiCase(a, b) ==
    LET to_ascii_lowercase(s) == IF s = "A" THEN "a" ELSE s
    IN  to_ascii_lowercase(a) = to_ascii_lowercase(b)

\* ordered_pks_from_columns(columns): the 0-based index of a column, once
\* for each of its options that declares it primary
OrderedPksFromColumns(columns) ==
    LET RECURSIVE Options(_, _, _)
        Options(options, index, ordered_pks) ==
            IF options = <<>> THEN ordered_pks
            ELSE Options(Tail(options), index,
                         IF Head(options) = "Primary"
                         THEN Append(ordered_pks, index) ELSE ordered_pks)
        RECURSIVE Defs(_, _)
        Defs(n, ordered_pks) ==
            IF n > Len(columns) THEN ordered_pks
            ELSE Defs(n + 1, Options(columns[n].options, n - 1, ordered_pks))
    IN  Defs(1, <<>>)

\* pks_name_from_constraints(constraints): the lower-cased column names of
\* the primary constraints, in declaration order
RECURSIVE PksNameFromConstraints(_)
PksNameFromConstraints(constraints) ==
    IF constraints = <<>> THEN <<>>
    ELSE LET constraint == Head(constraints)
             names == IF constraint.is_primary
                      THEN [k \in 1..Len(constraint.columns) |->
                                ToLowercase(constraint.columns[k])]
                      ELSE <<>>
         IN  names \o PksNameFromConstraints(Tail(constraints))

\* ColumnCatalog::from(cdef): the last option of a kind wins; an option of
\* another kind reaches todo!() and aborts
FromColumnDef(cdef) ==
    LET RECURSIVE Options(_, _)
        Options(options, acc) ==
            IF options = <<>> THEN Returned(acc)
            ELSE LET opt == Head(options)
                 IN  CASE opt = "Null" -> Options(Tail(options), [acc EXCEPT !.is_nullable = TRUE])
                       [] opt = "NotNull" -> Options(Tail(options), [acc EXCEPT !.is_nullable = FALSE])
                       [] opt = "Primary" -> Options(Tail(options), [acc EXCEPT !.is_primary_ = TRUE])
                       [] opt = "Unique" -> Options(Tail(options), [acc EXCEPT !.is_primary_ = FALSE])
                       [] opt = "Required" -> Options(Tail(options), [acc EXCEPT !.is_required = TRUE])
                       [] OTHER -> Panic
        r == Options(cdef.options,
                     [is_nullable |-> TRUE, is_primary_ |-> FALSE, is_required |-> FALSE])
    IN  IF ~r.returned THEN Panic
        ELSE Returned(ColumnCatalogNew(0,
                ColumnDescNew(DataTypeNew(cdef.data_type, r.value.is_nullable),
                              ToLowercase(cdef.name), r.value.is_primary_,
                              r.value.is_required)))

\* columns.iter().position(|c| c.name.value.eq_ignore_ascii_case(name))
Position(columns, name) ==
    LET found == {i \in 1..Len(columns) : EqIgnoreAsciiCase(columns[i].name, name)}
    IN  IF found = {} THEN None
        ELSE Some((CHOOSE i \in found : \A j \in found : i <= j) - 1)

\* bind_create_table(name, columns, constraints) on the catalog `schemas` and
\* the binder's graph eg: the Result, the node created and the graph after
\* the call.  name is the object name after lower_case_name and split_name.
BindCreateTable(schemas, eg, name, columns, constraints) ==
    LET Err(e) == [kind |-> "Err", error |-> e, created |-> None, egraph |-> eg]
        Abort == [kind |-> "Panic", error |-> "", created |-> None, egraph |-> eg]
        n == Len(columns)
        set == {ToLowercase(columns[i].name) : i \in 1..n}
        ordered_pks == OrderedPksFromColumns(columns)
        has_pk_from_column == ordered_pks # <<>>
        pks_name_from_constraints == PksNameFromConstraints(constraints)
        positions == [k \in 1..Len(pks_name_from_constraints) |->
                          Position(columns, pks_name_from_constraints[k])]
        ordered_pk_ids ==
            IF has_pk_from_column THEN ordered_pks
            ELSE [k \in 1..Len(positions) |-> positions[k][1]]
        from == [i \in 1..n |-> FromColumnDef(columns[i])]
        is_pk(i) == \E k \in 1..Len(ordered_pk_ids) : ordered_pk_ids[k] = i - 1
        catalogs == [i \in 1..n |->
                        LET c == SetId(from[i].value, i - 1)
                        IN  IF is_pk(i) THEN SetNullable(SetPrimary(c, TRUE), FALSE)
                            ELSE c]
        create == [schema_id |-> 0, table_name |-> name.table,
                   columns |-> catalogs, ordered_pk_ids |-> ordered_pk_ids]
    IN  IF name.schema \notin DOMAIN schemas THEN Err("InvalidSchema")
        ELSE IF name.table \in schemas[name.schema] THEN Err("DuplicatedTable")
        ELSE IF Cardinality(set) < n THEN Err("DuplicatedColumn")
        ELSE IF Len(ordered_pks) > 1 THEN Err("NotSupportedTSQL")
        ELSE IF has_pk_from_column /\ pks_name_from_constraints # <<>>
             THEN Err("NotSupportedTSQL")
        ELSE IF \E k \in 1..Len(pks_name_from_constraints) :
                    pks_name_from_constraints[k] \notin set
             THEN Err("InvalidColumn")
        ELSE IF \E k \in 1..Len(positions) : positions[k] = None THEN Abort
        ELSE IF \E i \in 1..n : ~from[i].returned THEN Abort
        ELSE [kind |-> "Ok", error |-> "", created |-> Some(create),
              egraph |-> eg \cup {create}]

(***************************************************************************)
(* BindSpec: one CREATE TABLE statement is bound against the catalog.      *)
(***************************************************************************)
ObjectNames ==
    {[schema |-> "postgres", table |-> "t"], [schema |-> "postgres", table |-> "u"],
     [schema |-> "nosuch", table |-> "u"]}

OptionLists ==
    {<<>>, <<"NotNull">>, <<"Primary">>, <<"Primary", "Primary">>,
     <<"Primary", "Null">>, <<"Default">>}

\* the column definitions of a statement: at most MaxDefs columns
ColumnDefLists ==
    UNION {[1..n -> [name : ColumnNames, data_type : {"int"}, options : OptionLists]] :
              n \in 0..MaxDefs}

\* no constraint, or one UNIQUE / PRIMARY KEY constraint over one or two
\* column names
Constraints ==
    LET idents == {"A", "auml"}
        lists == {<<x>> : x \in idents} \cup {<<x, y>> : x \in idents, y \in idents}
    IN  {<<>>} \cup {<<[is_primary |-> p, columns |-> l]>> : p \in BOOLEAN, l \in lists}

BindCreateTableStep ==
    /\ stmt = None
    /\ \E name \in ObjectNames, columns \in ColumnDefLists, constraints \in Constraints :
          LET r == BindCreateTable(schema, graph, name, columns, constraints)
          IN  /\ stmt' = Some([name |-> name, columns |-> columns,
                               constraints |-> constraints])
              /\ result' = Some([kind |-> r.kind, error |-> r.error, created |-> r.created])
              /\ graph' = r.egraph
    /\ UNCHANGED <<schema, optVars, histVars, detVars, costVars, exprVars, colVars>>

BindSpec == CatalogInit /\ [][BindCreateTableStep]_vars

\* the statement bound and the Result of binding it
Bound == stmt[1]
Res == result[1]
DefinedNames == {ToLowercase(Bound.columns[i].name) : i \in 1..Len(Bound.columns)}
PrimaryByOption ==
    {i \in 1..Len(Bound.columns) :
        \E k \in 1..Len(Bound.columns[i].options) : Bound.columns[i].options[k] = "Primary"}
PrimaryConstraintNames ==
    UNION {{ToLowercase(Bound.constraints[c].columns[k]) :
                k \in 1..Len(Bound.constraints[c].columns)} :
           c \in {d \in 1..Len(Bound.constraints) : Bound.constraints[d].is_primary}}

\* the errors the statement calls for: its table exists, two of its columns
\* have names equal ignoring case, more than one of its columns is primary
\* by option, it has a primary key by option and by constraint, a primary
\* constraint names a column it does not define
ListedErrors ==
    (IF /\ Bound.name.schema \in DOMAIN schema
        /\ Bound.name.table \in schema[Bound.name.schema]
     THEN {"DuplicatedTable"} ELSE {})
    \cup (IF Cardinality(DefinedNames) < Len(Bound.columns)
          THEN {"DuplicatedColumn"} ELSE {})
    \cup (IF Cardinality(PrimaryByOption) > 1 THEN {"NotSupportedTSQL"} ELSE {})
    \cup (IF PrimaryByOption # {} /\ PrimaryConstraintNames # {}
          THEN {"NotSupportedTSQL"} ELSE {})
    \cup (IF PrimaryConstraintNames \ DefinedNames # {} THEN {"InvalidColumn"} ELSE {})

\* C14: bind_create_table returns one of the errors the statement calls for
\* and adds no node when the table exists, two columns have the same name
\* ignoring case, more than one column is primary by option, the primary key
\* is declared by option and by constraint, or a primary constraint names an
\* undefined column; every other statement returns Ok and adds exactly one
\* CreateTable node
C14_RejectsListedAcceptsRest ==
    result # None =>
        IF ListedErrors # {}
        THEN Res.kind = "Err" /\ Res.error \in ListedErrors /\ graph = {}
        ELSE Res.kind = "Ok" /\ graph = {Res.created[1]}

\* the CreateTable a successful bind created, and the column names of the
\* statement's PRIMARY KEY constraint in the order written
Created == Res.created[1]
DeclaredKey ==
    IF Bound.constraints # <<>> /\ Bound.constraints[1].is_primary
    THEN Bound.constraints[1].columns ELSE <<>>

C16_IdsArePositions == \A i \in 1..Len(Created.columns) : Created.columns[i].id = i - 1
C16_KeyValid ==
    \A k \in 1..Len(Created.ordered_pk_ids) :
        Created.ordered_pk_ids[k] \in 0..(Len(Created.columns) - 1)
C16_KeyWithoutDuplicates ==
    \A k, l \in 1..Len(Created.ordered_pk_ids) :
        k # l => Created.ordered_pk_ids[k] # Created.ordered_pk_ids[l]
C16_KeyInDeclarationOrder ==
    IF PrimaryByOption # {}
    THEN \E i \in PrimaryByOption : Created.ordered_pk_ids = <<i - 1>>
    ELSE /\ Len(Created.ordered_pk_ids) = Len(DeclaredKey)
         /\ \A k \in 1..Len(DeclaredKey) :
               ToLowercase(Bound.columns[Created.ordered_pk_ids[k] + 1].name)
                   = ToLowercase(DeclaredKey[k])
C16_PrimaryIffInKey ==
    \A i \in 1..Len(Created.columns) :
        Created.columns[i].desc.is_primary <=>
            \E k \in 1..Len(Created.ordered_pk_ids) : Created.ordered_pk_ids[k] = i - 1
C16_PrimaryNotNull ==
    \A i \in 1..Len(Created.columns) :
        Created.columns[i].desc.is_primary => ~Created.columns[i].desc.datatype.nullable

\* C16: after a successful bind_create_table, column i of the created table
\* has id i, ordered_pk_ids holds valid column positions without duplicates
\* in the declaration order of the primary key, a column is flagged primary
\* exactly when its id is in ordered_pk_ids, and every primary column is
\* non-nullable
C16_CreatedTableInvariants ==
    (result # None /\ Res.kind = "Ok") =>
        /\ C16_IdsArePositions
        /\ C16_KeyValid
        /\ C16_KeyWithoutDuplicates
        /\ C16_KeyInDeclarationOrder
        /\ C16_PrimaryIffInKey
        /\ C16_PrimaryNotNull

\* the positions of the columns of the created table that are flagged primary
PrimaryPositions ==
    {i \in 1..Len(Created.columns) : Created.columns[i].desc.is_primary}

\* C17: on the columns of every table bind_create_table accepted, at most
\* one column is flagged primary and find_sort_key_id returns, without
\* aborting, the position of that column, or None when there is none
C17_SortKeyOfAcceptedTable ==
    (result # None /\ Res.kind = "Ok") =>
        /\ Cardinality(PrimaryPositions) <= 1
        /\ FindSortKeyId(Created.columns).returned
        /\ FindSortKeyId(Created.columns).value =
              (IF PrimaryPositions = {} THEN None
               ELSE Some((CHOOSE i \in PrimaryPositions : TRUE) - 1))

====
